---------------------------- MODULE Spec2Model ----------------------------
(***************************************************************************)
(* LIDAR scanning and obstacle ranging of bevy_turtlebot4_testbed          *)
(* (src/src/lidar.rs), as a state machine, and the drag-and-return of the  *)
(* arm's draggable links (src/src/robotic_arm.rs).                         *)
(*                                                                         *)
(* Number representation (f32 in the source):                              *)
(*   lengths and coordinates   integers, millimetres                       *)
(*   angles                    integers, degrees (PI == 180)               *)
(*   cosines, dot products     integers, fixed point with ONE == 1.0       *)
(*   durations                 integers, milliseconds                      *)
(*   f32::INFINITY             INFINITY, above every finite length         *)
(***************************************************************************)
EXTENDS Integers, Sequences, FiniteSets, TLC

(***************************************************************************)
(* Program constants, lidar.rs:4-13.                                       *)
(***************************************************************************)
PI == 180
LIDAR_RANGE_MIN == 200
LIDAR_RANGE_MAX == 12000
LIDAR_SCAN_RATE == 10
LIDAR_RAYS_PER_SCAN == 36
LIDAR_ANGULAR_RESOLUTION == (2 * PI) \div LIDAR_RAYS_PER_SCAN

\* fixed-point 1.0 of the direction cosines (angle.cos(), angle.sin())
ONE == 100000
\* one second, in the milliseconds of Time::delta and the Timer
SECOND == 1000
\* f32::INFINITY, the "no return" range
INFINITY == 2000000000
\* angular_tolerance.cos(), cos(0.087 rad) = 0.99622
min_dot == 99622

(***************************************************************************)
(* Bounds of the model.                                                    *)
(***************************************************************************)
\* host events explored: frames (runs of the Update schedule) plus external
\* mutations (inspector edits)
MaxSteps == 3
\* host events explored by ConfigSpec
MaxConfigSteps == 3
\* frames explored by TimerSpec
MaxTicks == 10
\* host events explored by FleetSpec
MaxFleetSteps == 3
\* displacements of the arm's link explored by ArmSpec
MaxDrags == 3

(***************************************************************************)
(* f32 / Vec3 arithmetic used by the sweep.                                *)
(***************************************************************************)
\* cos of 0..90 degrees, scaled by ONE
CosTable ==
   << 100000, 99985, 99939, 99863, 99756, 99619, 99452, 99255, 99027, 98769,
      98481, 98163, 97815, 97437, 97030, 96593, 96126, 95630, 95106, 94552,
      93969, 93358, 92718, 92050, 91355, 90631, 89879, 89101, 88295, 87462,
      86603, 85717, 84805, 83867, 82904, 81915, 80902, 79864, 78801, 77715,
      76604, 75471, 74314, 73135, 71934, 70711, 69466, 68200, 66913, 65606,
      64279, 62932, 61566, 60182, 58779, 57358, 55919, 54464, 52992, 51504,
      50000, 48481, 46947, 45399, 43837, 42262, 40674, 39073, 37461, 35837,
      34202, 32557, 30902, 29237, 27564, 25882, 24192, 22495, 20791, 19081,
      17365, 15643, 13917, 12187, 10453, 8716, 6976, 5234, 3490, 1745,
      0 >>

\* f32::cos of an angle in degrees
Cos(angle) ==
   LET a == angle % (2 * PI)
   IN  IF a <= 90 THEN CosTable[a + 1]
       ELSE IF a <= 180 THEN 0 - CosTable[180 - a + 1]
       ELSE IF a <= 270 THEN 0 - CosTable[a - 180 + 1]
       ELSE CosTable[360 - a + 1]

\* f32::sin of an angle in degrees
Sin(angle) == Cos(angle - 90)

RECURSIVE SqrtIter(_, _, _)
\* largest r in lo..hi with r * r <= n
SqrtIter(n, lo, hi) ==
   IF lo >= hi THEN lo
   ELSE LET mid == (lo + hi + 1) \div 2
        IN  IF mid * mid <= n THEN SqrtIter(n, mid, hi)
            ELSE SqrtIter(n, lo, mid - 1)

\* f32::sqrt, rounded down to a millimetre
Sqrt(n) == SqrtIter(n, 0, 32767)

\* Vec3 - Vec3
VecSub(a, b) == << a[1] - b[1], a[2] - b[2], a[3] - b[3] >>

\* Vec3::length
Length(v) == Sqrt(v[1] * v[1] + v[2] * v[2] + v[3] * v[3])

\* Vec3::dot of a direction (scaled by ONE) and a displacement
Dot(d, v) == d[1] * v[1] + d[2] * v[2] + d[3] * v[3]

\* Vec3::new(angle.cos(), 0.0, angle.sin())
LocalDirection(angle) == << Cos(angle), 0, Sin(angle) >>

\* lidar_transform.rotation() * local_direction, for a rotation about Y
\* (the yaw of the chassis), given in degrees
Rotate(yaw, angle) == LocalDirection(angle - yaw)


(***************************************************************************)
(* The world the sensor ranges against: the GlobalTransform of every       *)
(* entity With<Collider>, Without<LidarSensor>, in the order the query     *)
(* iterates them, and the sensor's own GlobalTransform.                    *)
(***************************************************************************)
\* the sensor at the origin, facing +X
AtOrigin == [translation |-> <<0, 0, 0>>, yaw |-> 0]

\* the sensor one metre along +X, turned a quarter turn about Y
Turned == [translation |-> <<1000, 0, 0>>, yaw |-> 90]

Worlds ==
   { \* one obstacle 3 m ahead
     [obstacles |-> << <<3000, 0, 0>> >>, transform |-> AtOrigin],
     \* one obstacle 0.1 m ahead, below range_min
     [obstacles |-> << <<100, 0, 0>> >>, transform |-> AtOrigin],
     \* two obstacles on the +X ray, the farther one listed first
     [obstacles |-> << <<5000, 0, 0>>, <<3000, 0, 0>> >>, transform |-> AtOrigin],
     \* the same two obstacles seen from the turned sensor
     [obstacles |-> << <<3000, 0, 0>>, <<5000, 0, 0>> >>, transform |-> Turned],
     \* one obstacle at exactly range_max
     [obstacles |-> << <<12000, 0, 0>> >>, transform |-> AtOrigin],
     \* two obstacles at the same distance (3130 mm) in the cone of the +X
     \* ray, one of them above the scan plane
     [obstacles |-> << <<3130, 0, 0>>, <<3120, 250, 0>> >>, transform |-> AtOrigin],
     \* obstacles at exactly range_min, beyond range_max and half way
     \* between the 0 and 10 degree rays
     [obstacles |-> << <<0, 0, 200>>, <<13000, 0, 0>>, <<2989, 0, 261>> >>,
      transform |-> AtOrigin] }

\* values an inspector edit gives rays_per_scan (tests.rs:24, 46)
RaysChoices == {36, 72}

\* values an edit gives rays_per_scan in ConfigSpec: also the low resolution
\* of tests.rs:291 and zero
ConfigRaysChoices == {0, 18, 36, 72}

\* values an edit gives scan_rate
ScanRateChoices == {5, 10, 20}

\* values an edit gives range_min: the default, and range_max itself
RangeMinChoices == {LIDAR_RANGE_MIN, LIDAR_RANGE_MAX}

\* the keys toggle_lidar_visualization reads, and the flag each one flips
ToggleKeys == [KeyL |-> "visualize", KeyO |-> "enable_logging"]

\* values an inspector edit gives noise_stddev (tests.rs:296: 0.05)
NoiseChoices == {0, 50}

\* Time::delta of a frame
Deltas == {50, 100}

\* Time::delta of a frame in TimerSpec: a hundredth of a second, a tenth,
\* and a quarter (more than two periods of the default timer)
TickDeltas == {10, 100, 250}

\* samples of Normal(0, noise_stddev) the model draws
NoiseSamples(noise_stddev) == {0 - noise_stddev, noise_stddev}

\* the systems LidarPlugin adds to Update that write the sensor
Systems == {"lidar_parameter_update_system", "lidar_scanning_system"}

VARIABLES
   lidar,            \* the LidarSensor component
   changed,          \* Changed<LidarSensor>, as lidar_parameter_update_system sees it
   pending,          \* systems that have not yet run in the current frame
   obstacles,        \* the entities with a Collider and no LidarSensor
   lidar_transform,  \* the sensor's GlobalTransform
   laser_scan,       \* the LaserScan message of the last sweep
   sweep,            \* the last sweep: what it read, and scan_results as it left them
   prev,             \* the sweep before the last one: what it read and wrote
   sweeps,           \* number of sweeps completed
   frames,           \* number of frames completed
   edits,            \* number of external mutations so far
   clock,            \* host time delivered so far: the sum of Time::delta
   dirty,            \* a field was mutated since update_parameters last ran
   twin,             \* a second run of the sensor, fed the same frames
   reads,            \* the reads scan_results[current_ray] of the last scanning run
   host,             \* the frame times the host delivers, and the events left
   peer,             \* a second LidarSensor entity of the same world
   arm,              \* a draggable link of the arm: Transform and DragState
   arm_pending,      \* arm systems that have not yet run in the current frame
   drags             \* displacements of the link the host may still make

\* the state of the arm's draggable link
arm_vars == << arm, arm_pending, drags >>

\* the state of the sensor and its host
lidar_vars == << lidar, changed, pending, obstacles, lidar_transform,
                 laser_scan, sweep, prev, sweeps, frames, edits, clock, dirty,
                 twin, reads, host, peer >>

vars == << lidar, changed, pending, obstacles, lidar_transform, laser_scan,
           sweep, prev, sweeps, frames, edits, clock, dirty, twin, reads,
           host, peer, arm, arm_pending, drags >>

(***************************************************************************)
(* bevy Timer, as lidar.rs uses it.                                        *)
(***************************************************************************)
\* Timer::from_seconds(1.0 / scan_rate, TimerMode::Repeating)
TimerFromRate(scan_rate) ==
   [ duration |-> SECOND \div scan_rate,
     elapsed |-> 0,
     finished |-> FALSE,
     times_finished_this_tick |-> 0 ]

\* Timer::tick(delta) of a repeating timer
TimerTick(t, delta) ==
   LET e == t.elapsed + delta
   IN  IF e >= t.duration
       THEN [t EXCEPT !.elapsed = e % t.duration,
                      !.finished = TRUE,
                      !.times_finished_this_tick = e \div t.duration]
       ELSE [t EXCEPT !.elapsed = e,
                      !.finished = FALSE,
                      !.times_finished_this_tick = 0]

\* Timer::just_finished
JustFinished(t) == t.times_finished_this_tick > 0

(***************************************************************************)
(* LidarSensor.                                                            *)
(***************************************************************************)
\* LidarSensor::default()
LidarDefault ==
   [ range_min |-> LIDAR_RANGE_MIN,
     range_max |-> LIDAR_RANGE_MAX,
     scan_rate |-> LIDAR_SCAN_RATE,
     rays_per_scan |-> LIDAR_RAYS_PER_SCAN,
     angular_resolution |-> LIDAR_ANGULAR_RESOLUTION,
     scan_timer |-> TimerFromRate(LIDAR_SCAN_RATE),
     offset |-> <<0, 0, 0>>,
     visualize |-> TRUE,
     current_angle |-> 0,
     current_ray |-> 0,
     scan_results |-> << >>,
     capacity |-> LIDAR_RAYS_PER_SCAN,
     enable_logging |-> TRUE,
     noise_stddev |-> 0 ]

\* f32 division a / b of non-negative numbers: a positive number divided
\* by zero is +infinity
DivF32(a, b) == IF b = 0 THEN INFINITY ELSE a \div b

\* 2.0 * PI / rays_per_scan as f32
AngularResolution(rays_per_scan) == DivF32(2 * PI, rays_per_scan)

\* mutant of update_parameters: angular_resolution is not recomputed
update_parameters_StaleResolution(l) ==
   LET resized == l.capacity # l.rays_per_scan
   IN  [l EXCEPT !.scan_timer = TimerFromRate(l.scan_rate),
                 !.scan_results = IF resized THEN << >> ELSE @,
                 !.capacity = IF resized THEN l.rays_per_scan ELSE @]

\* mutant of update_parameters: the cursor is reset with the derived state
update_parameters_ResetCursor(l) ==
   LET resized == l.capacity # l.rays_per_scan
   IN  [l EXCEPT !.angular_resolution = AngularResolution(l.rays_per_scan),
                 !.scan_timer = TimerFromRate(l.scan_rate),
                 !.scan_results = IF resized THEN << >> ELSE @,
                 !.capacity = IF resized THEN l.rays_per_scan ELSE @,
                 !.current_ray = 0,
                 !.current_angle = 0]

\* LidarSensor::update_parameters
update_parameters(l) ==
   LET resized == l.capacity # l.rays_per_scan
   IN  [l EXCEPT !.angular_resolution = AngularResolution(l.rays_per_scan),
                 !.scan_timer = TimerFromRate(l.scan_rate),
                 !.scan_results = IF resized THEN << >> ELSE @,
                 !.capacity = IF resized THEN l.rays_per_scan ELSE @]

(***************************************************************************)
(* The sweep of lidar_scanning_system, lidar.rs:164-261.                   *)
(***************************************************************************)
\* mutant of InRange: the lower bound is not tested
InRange_NoMin(distance_to_obstacle, range_min, range_max) ==
   ~ (distance_to_obstacle > range_max)

\* the range filter: the obstacle is not skipped by `continue`
InRange(distance_to_obstacle, range_min, range_max) ==
   ~ (distance_to_obstacle < range_min \/ distance_to_obstacle > range_max)

\* world_direction.dot(to_obstacle.normalize())
DotNormalized(world_direction, to_obstacle, distance_to_obstacle) ==
   Dot(world_direction, to_obstacle) \div distance_to_obstacle

\* mutant of InCone: a tolerance of 0.18 rad instead of 0.087
InCone_Wide(dot_product) == dot_product > 98384

\* the cone test
InCone(dot_product) == dot_product > min_dot

\* mutant of Closer: the distances are not compared, the last obstacle wins
Closer_Any(distance_to_obstacle, closest_distance) == TRUE

\* mutant of Closer: an obstacle as far as the best so far replaces it
Closer_OrEqual(distance_to_obstacle, closest_distance) ==
   distance_to_obstacle <= closest_distance

\* the nearest-obstacle test
Closer(distance_to_obstacle, closest_distance) ==
   distance_to_obstacle < closest_distance

\* obstacle_pos - lidar_pos and its length, for every obstacle of the query.
\* The source computes both inside the ray loop; they do not depend on the
\* ray, so the model computes them once per sweep.
Displacements(obs, lidar_pos) ==
   << >> \o [k \in 1 .. Len(obs) |->
               LET to_obstacle == VecSub(obs[k], lidar_pos)
               IN  [ to_obstacle |-> to_obstacle,
                     distance_to_obstacle |-> Length(to_obstacle) ]]

RECURSIVE ScanObstacles_FirstWins(_, _, _, _, _)
\* mutant of ScanObstacles: the loop breaks at the first obstacle found
ScanObstacles_FirstWins(disp, k, world_direction, l, acc) ==
   IF k > Len(disp) \/ acc.found_obstacle THEN acc
   ELSE LET to_obstacle == disp[k].to_obstacle
            distance_to_obstacle == disp[k].distance_to_obstacle
            next ==
               IF /\ ~ (distance_to_obstacle < l.range_min
                          \/ distance_to_obstacle > l.range_max)
                  /\ Dot(world_direction, to_obstacle) \div distance_to_obstacle
                        > min_dot
                  /\ distance_to_obstacle < acc.closest_distance
               THEN [closest_distance |-> distance_to_obstacle,
                     found_obstacle |-> TRUE]
               ELSE acc
        IN  ScanObstacles_FirstWins(disp, k + 1, world_direction, l, next)

RECURSIVE ScanObstacles(_, _, _, _, _)
\* for obstacle_transform in obstacle_query.iter(): the obstacles from the
\* k-th on, with acc the closest_distance and found_obstacle so far
ScanObstacles(disp, k, world_direction, l, acc) ==
   IF k > Len(disp) THEN acc
   ELSE LET to_obstacle == disp[k].to_obstacle
            distance_to_obstacle == disp[k].distance_to_obstacle
            next ==
               IF ~ InRange(distance_to_obstacle, l.range_min, l.range_max)
               THEN acc
               ELSE IF /\ InCone(DotNormalized(world_direction, to_obstacle,
                                               distance_to_obstacle))
                       /\ Closer(distance_to_obstacle, acc.closest_distance)
                    THEN [closest_distance |-> distance_to_obstacle,
                          found_obstacle |-> TRUE]
                    ELSE acc
        IN  ScanObstacles(disp, k + 1, world_direction, l, next)

\* f32::NAN
NAN == 0 - INFINITY

\* the f32 x is neither infinite nor NaN
IsFinite(x) == x # INFINITY /\ x # NAN

\* i as f32 * lidar.angular_resolution: zero times infinity is NaN
RayAngle(i, l) ==
   IF IsFinite(l.angular_resolution) THEN i * l.angular_resolution
   ELSE IF i = 0 THEN NAN ELSE INFINITY

\* the ray at `angle` before noise: its closest_distance and found_obstacle
\* (the cosine and sine of an infinite or NaN angle are NaN, and so is every
\* dot_product: `dot_product > min_dot` is false for every obstacle)
CastRay(angle, l, rotation, disp) ==
   IF IsFinite(angle)
   THEN ScanObstacles(disp, 1, Rotate(rotation, angle), l,
                      [closest_distance |-> l.range_max, found_obstacle |-> FALSE])
   ELSE [closest_distance |-> l.range_max, found_obstacle |-> FALSE]

\* mutant of RayCount: the loop runs over the capacity of scan_results
RayCount_Capacity(l) == l.capacity

\* the number of iterations of `for i in 0..lidar.rays_per_scan`
RayCount(l) == l.rays_per_scan

\* closest_distance after the noise model: noise holds the sample drawn for
\* each ray that draws one
Noised(closest_distance, i, noise) ==
   IF i \in DOMAIN noise THEN closest_distance + noise[i] ELSE closest_distance

\* the tuple pushed to scan_results
ResultEntry(angle, closest_distance, found_obstacle) ==
   [angle |-> angle, distance |-> closest_distance, hit |-> found_obstacle]

\* mutant of RangeEntry: a miss pushes closest_distance, not infinity
RangeEntry_Finite(closest_distance, found_obstacle) == closest_distance

\* the value pushed to laser_scan.ranges
RangeEntry(closest_distance, found_obstacle) ==
   IF found_obstacle THEN closest_distance ELSE INFINITY

\* mutant of IntensityEntry: every ray gets the hit intensity
IntensityEntry_Const(found_obstacle) == 1

\* the value pushed to laser_scan.intensities
IntensityEntry(found_obstacle) == IF found_obstacle THEN 1 ELSE 0

\* mutant of RayBody: a hit is stored only inside `if found_obstacle &&
\* lidar.enable_logging`
RayBody_LoggedOnly(i, l, rotation, disp, noise) ==
   LET angle == RayAngle(i, l)
       ray == CastRay(angle, l, rotation, disp)
       closest_distance == Noised(ray.closest_distance, i, noise)
       logged == ray.found_obstacle /\ l.enable_logging
   IN  [ result |-> ResultEntry(angle, closest_distance, logged),
         range |-> RangeEntry(closest_distance, logged),
         intensity |-> IntensityEntry(logged) ]

\* mutant of RayBody: the range filter is applied again to the noisy
\* distance, and a ray that fails it is stored as a miss
RayBody_Refiltered(i, l, rotation, disp, noise) ==
   LET angle == RayAngle(i, l)
       ray == CastRay(angle, l, rotation, disp)
       closest_distance == Noised(ray.closest_distance, i, noise)
       kept == ray.found_obstacle
                  /\ InRange(closest_distance, l.range_min, l.range_max)
   IN  [ result |-> ResultEntry(angle, closest_distance, kept),
         range |-> RangeEntry(closest_distance, kept),
         intensity |-> IntensityEntry(kept) ]

\* the body of `for i in 0..lidar.rays_per_scan` for ray i: what it pushes
\* to scan_results, laser_scan.ranges and laser_scan.intensities
RayBody(i, l, rotation, disp, noise) ==
   LET angle == RayAngle(i, l)
       ray == CastRay(angle, l, rotation, disp)
       closest_distance == Noised(ray.closest_distance, i, noise)
   IN  [ result |-> ResultEntry(angle, closest_distance, ray.found_obstacle),
         range |-> RangeEntry(closest_distance, ray.found_obstacle),
         intensity |-> IntensityEntry(ray.found_obstacle) ]

\* mutant of ClearResults: the previous sweep's entries are kept
ClearResults_Keep(scan_results) == scan_results

\* lidar.scan_results.clear()
ClearResults(scan_results) == << >>

\* the vectors a sweep fills: scan_results, ranges, intensities
\* (appending to << >> makes TLC evaluate the loop once, as a tuple)
Sweep(l, transform, obs, noise) ==
   LET disp == Displacements(obs, transform.translation)
       pushed == << >> \o [k \in 1 .. RayCount(l) |->
                             RayBody(k - 1, l, transform.yaw, disp, noise)]
   IN  [ scan_results |-> ClearResults(l.scan_results)
                             \o [k \in 1 .. Len(pushed) |-> pushed[k].result],
         ranges |-> [k \in 1 .. Len(pushed) |-> pushed[k].range],
         intensities |-> [k \in 1 .. Len(pushed) |-> pushed[k].intensity] ]

\* the rays that draw a noise sample: found_obstacle && noise_stddev > 0
NoisyRays(l, swept) ==
   IF l.noise_stddev > 0
   THEN {i \in 0 .. Len(swept.scan_results) - 1 : swept.scan_results[i + 1].hit}
   ELSE {}

\* the LaserScan message initialised at lidar.rs:152-162
LaserScanHeader(l) ==
   [ angle_min |-> 0,
     angle_max |-> 2 * PI,
     angle_increment |-> DivF32(2 * PI, l.rays_per_scan),
     time_increment |-> 0,
     scan_time |-> SECOND \div l.scan_rate,
     range_min |-> l.range_min,
     range_max |-> l.range_max,
     ranges |-> << >>,
     intensities |-> << >> ]

\* the message after the pushes of lidar.rs:240-249
LaserScanOf(l, swept) ==
   [LaserScanHeader(l) EXCEPT !.ranges = swept.ranges,
                              !.intensities = swept.intensities]

RECURSIVE GrowCapacity(_, _)
\* Vec capacity after `len` pushes into a cleared Vec of capacity `cap`
GrowCapacity(cap, len) ==
   IF len <= cap THEN cap
   ELSE GrowCapacity(IF 2 * cap > 4 THEN 2 * cap ELSE 4, len)

\* scan_results[current_ray].0 (scan_results[i] of the source is results[i + 1])
CursorAngle(results, current_ray) ==
   IF current_ray < Len(results) THEN results[current_ray + 1].angle ELSE NAN

\* mutant of HasSwept: the entry under the cursor is read after every sweep
HasSwept_Always(scan_results) == TRUE

\* lidar.rs:258: `if !lidar.scan_results.is_empty()` after the ray loop
HasSwept(scan_results) == scan_results # << >>

\* lidar.rs:334: `if !lidar.scan_results.is_empty()` before the advance
HasResults(scan_results) == scan_results # << >>

\* lidar.rs:164-261: the sensor after a sweep
SweepLidar(l, swept) ==
   [l EXCEPT !.scan_results = swept.scan_results,
             !.capacity = GrowCapacity(l.capacity, Len(swept.scan_results)),
             !.current_ray = 0,
             !.current_angle = IF HasSwept(swept.scan_results)
                               THEN CursorAngle(swept.scan_results, 0) ELSE 0]

\* mutant of AdvanceCursor: the cursor moves and current_angle is not updated
AdvanceCursor_IndexOnly(l) ==
   IF HasResults(l.scan_results)
   THEN [l EXCEPT !.current_ray = (l.current_ray + 1) % Len(l.scan_results)]
   ELSE l

\* lidar.rs:333-338: rotate the cursor through the scan results
AdvanceCursor(l) ==
   IF HasResults(l.scan_results)
   THEN LET r == (l.current_ray + 1) % Len(l.scan_results)
        IN  [l EXCEPT !.current_ray = r,
                      !.current_angle = CursorAngle(l.scan_results, r)]
   ELSE l

\* the reads scan_results[current_ray] of one run of lidar_scanning_system,
\* each with the index read and the length of the vector at that moment:
\* lidar.rs:259 when the timer fired, then lidar.rs:336.  l is the sensor
\* after the ray loop (or after the tick, when no sweep ran).
CursorReads(l, fired) ==
   LET after_sweep == IF fired /\ HasSwept(l.scan_results)
                      THEN << [ index |-> l.current_ray,
                                len |-> Len(l.scan_results) ] >>
                      ELSE << >>
       advance == IF HasResults(l.scan_results)
                  THEN << [ index |-> AdvanceCursor(l).current_ray,
                            len |-> Len(l.scan_results) ] >>
                  ELSE << >>
   IN  after_sweep \o advance

\* lidar.rs:357: the local direction lidar_visualization_system rebuilds
\* from the angle of a stored entry
VisualizationDirection(angle) == << Cos(angle), 0, 0 - Sin(angle) >>

\* lidar.rs:347-361: the local directions lidar_visualization_system draws,
\* one per stored entry, none when visualize is off
DrawnDirections(l) ==
   IF l.visualize
   THEN [k \in 1 .. Len(l.scan_results) |->
           VisualizationDirection(l.scan_results[k].angle)]
   ELSE << >>

\* what a sweep reads: the obstacle snapshot, the pose and the sensor's fields
SweepInputs(l, transform, obs) ==
   [ obstacles |-> obs,
     transform |-> transform,
     range_min |-> l.range_min,
     range_max |-> l.range_max,
     scan_rate |-> l.scan_rate,
     rays_per_scan |-> l.rays_per_scan,
     angular_resolution |-> l.angular_resolution,
     period |-> l.scan_timer.duration,
     enable_logging |-> l.enable_logging,
     noise_stddev |-> l.noise_stddev ]

(***************************************************************************)
(* The entities of the world as the queries of lidar_scanning_system see   *)
(* them, and a second LidarSensor entity.                                  *)
(***************************************************************************)
\* no second sensor is spawned
NoPeer == [on |-> FALSE]

\* a second entity with a LidarSensor, 3 m from the origin on the +Z axis,
\* that carries a Collider of its own
Peer ==
   [ on |-> TRUE,
     lidar |-> LidarDefault,
     changed |-> TRUE,
     transform |-> [translation |-> << 0, 0, 3000 >>, yaw |-> 0],
     collider |-> TRUE ]

\* the entities with a GlobalTransform: the obstacles, which have a Collider
\* and no LidarSensor, and the sensors
Entities(obs, sensors) ==
   [k \in 1 .. Len(obs) |->
      [translation |-> obs[k], collider |-> TRUE, lidar_sensor |-> FALSE]]
   \o [k \in 1 .. Len(sensors) |->
         [ translation |-> sensors[k].transform.translation,
           collider |-> sensors[k].collider,
           lidar_sensor |-> TRUE ]]

\* the query filter (With<Collider>, Without<LidarSensor>)
IsObstacle(e) == e.collider /\ ~ e.lidar_sensor

\* mutant of ObstacleQuery: every entity with a Collider is an obstacle
ObstacleQuery_AnyCollider(entities) ==
   LET found == SelectSeq(entities, LAMBDA e : e.collider)
   IN  [k \in 1 .. Len(found) |-> found[k].translation]

\* obstacle_query: the translations of the entities that match
\* Query<&GlobalTransform, (With<Collider>, Without<LidarSensor>)>
ObstacleQuery(entities) ==
   LET found == SelectSeq(entities, IsObstacle)
   IN  [k \in 1 .. Len(found) |-> found[k].translation]

(***************************************************************************)
(* The draggable links of the arm, robotic_arm.rs:34-56 and 654-720.       *)
(* Lengths are in millimetres, a rotation is an angle in degrees about one *)
(* axis, return_timer and return_duration are in milliseconds, and the     *)
(* interpolation factors are in thousandths.                               *)
(***************************************************************************)
\* POSITION_THRESHOLD = 0.001 (metres)
POSITION_THRESHOLD == 1

\* ROTATION_THRESHOLD = 0.001 (radians): less than one degree
ROTATION_THRESHOLD == 0

\* fixed-point 1.0 of the interpolation factors t and ease_t
UNIT == 1000

\* the Transform a link is spawned with, which it keeps in OriginalTransform
OriginalTransform == [translation |-> << 0, 500, 0 >>, rotation |-> 0]

\* DragState::default()
DragStateDefault ==
   [ is_being_dragged |-> FALSE,
     was_dragged |-> FALSE,
     return_timer |-> 0,
     return_duration |-> 2 * SECOND ]

\* a link as spawn_ur3e_arm inserts it
ArmSpawned == [transform |-> OriginalTransform, drag_state |-> DragStateDefault]

\* the two systems that write DragState
ArmSystems == {"detect_drag_state", "return_to_original_position"}

\* Time::delta of a frame of the arm: half a second, and a stall as long as
\* return_duration
ArmDeltas == {500, 2 * SECOND}

\* where a drag (or the physics step) leaves the link: pulled aside, turned,
\* pushed below the ground, and put back where it was spawned
DragTargets ==
   { [translation |-> << 300, 500, 0 >>, rotation |-> 0],
     [translation |-> << 0, 500, 0 >>, rotation |-> 30],
     [translation |-> << 0, 0 - 200, 0 >>, rotation |-> 0],
     OriginalTransform }

\* robotic_arm.rs:663-666: is_displaced
IsDisplaced(transform) ==
   LET position_diff == Length(VecSub(transform.translation,
                                      OriginalTransform.translation))
       turned == transform.rotation - OriginalTransform.rotation
       rotation_diff == IF turned >= 0 THEN turned ELSE 0 - turned
   IN  \/ position_diff > POSITION_THRESHOLD
       \/ rotation_diff > ROTATION_THRESHOLD

\* the body of detect_drag_state for one link
DetectDragState(a) ==
   IF IsDisplaced(a.transform)
   THEN [a EXCEPT !.drag_state.was_dragged = TRUE,
                  !.drag_state.is_being_dragged = TRUE]
   ELSE IF a.drag_state.was_dragged
        THEN [a EXCEPT !.drag_state.is_being_dragged = FALSE,
                       !.drag_state.return_timer = 0]
        ELSE a

\* robotic_arm.rs:685: transform.translation.y < -0.1
FellBelowGround(transform) == transform.translation[2] < 0 - 100

\* x * f for a factor f in thousandths, rounded towards zero
Scale(x, f) ==
   IF x >= 0 THEN (x * f) \div UNIT ELSE 0 - (((0 - x) * f) \div UNIT)

\* from.lerp(to, s) of one coordinate, and slerp of the angle
Lerp(from, to, s) == from + Scale(to - from, s)

\* the body of return_to_original_position for one link
ReturnToOriginal(a, delta) ==
   IF \/ a.drag_state.was_dragged /\ ~ a.drag_state.is_being_dragged
      \/ FellBelowGround(a.transform)
   THEN LET return_timer == a.drag_state.return_timer + delta
            ratio == (return_timer * UNIT) \div a.drag_state.return_duration
            t == IF ratio < UNIT THEN ratio ELSE UNIT
            rest == UNIT - t
            ease_t == UNIT - (rest * rest * rest) \div (UNIT * UNIT)
            o == OriginalTransform
            moved == [ translation |->
                          [c \in 1 .. 3 |->
                             Lerp(o.translation[c], a.transform.translation[c],
                                  UNIT - ease_t)],
                       rotation |-> Lerp(o.rotation, a.transform.rotation,
                                         UNIT - ease_t) ]
        IN  IF t >= UNIT
            THEN [ transform |-> o,
                   drag_state |-> [a.drag_state EXCEPT !.was_dragged = FALSE,
                                                       !.return_timer = 0] ]
            ELSE [ transform |-> moved,
                   drag_state |-> [a.drag_state EXCEPT
                                      !.return_timer = return_timer] ]
   ELSE a

(***************************************************************************)
(* The state machine.  A frame runs every system of Systems once; the      *)
(* tuple passed to add_systems (lidar.rs:115-122) orders them in no way,   *)
(* so each frame may run them in either order.  An external mutation (an   *)
(* inspector edit of a reflected field) happens outside the Update         *)
(* schedule, between two frames.  The obstacles and the pose are those of  *)
(* the scene the run starts in.                                            *)
(***************************************************************************)
\* no sweep has completed yet
NoSweep == [n |-> 0]

\* no second run is followed
NoTwin == [on |-> FALSE]

\* the state every run starts in: the sensor as turtlebot4.rs spawns it,
\* the component just added (so Changed), in the scene w
Spawned(w) ==
   /\ lidar = LidarDefault
   /\ changed = TRUE
   /\ pending = Systems
   /\ obstacles = w.obstacles
   /\ lidar_transform = w.transform
   /\ laser_scan = LaserScanHeader(LidarDefault)
   /\ sweep = NoSweep
   /\ prev = NoSweep
   /\ sweeps = 0
   /\ frames = 0
   /\ edits = 0
   /\ clock = 0
   /\ dirty = TRUE
   /\ reads = << >>

\* the arm's link rests where it was spawned and is never dragged
ArmAtRest ==
   /\ arm = ArmSpawned
   /\ arm_pending = ArmSystems
   /\ drags = 0

Init ==
   /\ \E w \in Worlds : Spawned(w)
   /\ ArmAtRest
   /\ peer = NoPeer
   /\ twin = NoTwin
   /\ host = [deltas |-> Deltas, rays |-> RaysChoices, steps |-> MaxSteps]

\* one obstacle 3 m ahead of the sensor at the origin
Bench == [obstacles |-> << <<3000, 0, 0>> >>, transform |-> AtOrigin]

\* a second run that starts with the flags visualize and enable_logging
Twin(visualize, enable_logging) ==
   [ on |-> TRUE,
     lidar |-> [LidarDefault EXCEPT !.visualize = visualize,
                                    !.enable_logging = enable_logging],
     changed |-> TRUE,
     laser_scan |-> LaserScanHeader(LidarDefault),
     sweeps |-> 0 ]

InitConfig ==
   /\ Spawned(Bench)
   /\ ArmAtRest
   /\ peer = NoPeer
   /\ \E visualize, enable_logging \in BOOLEAN :
         twin = Twin(visualize, enable_logging)
   /\ host = [deltas |-> Deltas, rays |-> ConfigRaysChoices,
              steps |-> MaxConfigSteps]

\* system `sys` has run: the frame ends when every system has
Ran(sys) ==
   IF pending \ {sys} = {}
   THEN /\ pending' = Systems
        /\ frames' = frames + 1
        /\ host' = [host EXCEPT !.steps = @ - 1]
   ELSE /\ pending' = pending \ {sys}
        /\ frames' = frames
        /\ host' = host

\* the body of lidar_parameter_update_system for one sensor: the query
\* yields it only when it is Changed
ParameterUpdate(l, is_changed) == IF is_changed THEN update_parameters(l) ELSE l

\* the body of lidar_scanning_system for one sensor: the sensor it leaves,
\* and the LaserScan it built if the timer just finished
Scanned(l, delta, transform, obs, noise) ==
   LET ticked == [l EXCEPT !.scan_timer = TimerTick(@, delta)]
   IN  IF JustFinished(ticked.scan_timer)
       THEN LET swept == Sweep(ticked, transform, obs, noise)
            IN  [ lidar |-> AdvanceCursor(SweepLidar(ticked, swept)),
                  swept |-> TRUE,
                  laser_scan |-> LaserScanOf(ticked, swept) ]
       ELSE [ lidar |-> AdvanceCursor(ticked), swept |-> FALSE ]

\* obstacle_query as the frame's lidar_scanning_system sees it
obstacle_query ==
   ObstacleQuery(Entities(obstacles,
                          << [transform |-> lidar_transform,
                              collider |-> FALSE] >>
                          \o (IF peer.on THEN << peer >> ELSE << >>)))

\* the second sensor after lidar_parameter_update_system
PeerUpdated ==
   IF peer.on
   THEN [peer EXCEPT !.lidar = ParameterUpdate(peer.lidar, peer.changed),
                     !.changed = FALSE]
   ELSE peer

\* the second sensor after lidar_scanning_system
PeerScanned(delta) ==
   IF peer.on
   THEN [peer EXCEPT !.lidar = Scanned(peer.lidar, delta, peer.transform,
                                       obstacle_query, << >>).lidar,
                     !.changed = TRUE]
   ELSE peer

\* the second run after the same frame of lidar_parameter_update_system
TwinUpdated ==
   IF twin.on
   THEN [twin EXCEPT !.lidar = ParameterUpdate(twin.lidar, twin.changed),
                     !.changed = FALSE]
   ELSE twin

\* the second run after the same frame of lidar_scanning_system; its world
\* holds the obstacles and no other sensor
TwinScanned(delta, noise) ==
   IF twin.on
   THEN LET alone == ObstacleQuery(Entities(obstacles, << >>))
            out == Scanned(twin.lidar, delta, lidar_transform, alone, noise)
        IN  [twin EXCEPT !.lidar = out.lidar,
                         !.changed = TRUE,
                         !.laser_scan = IF out.swept THEN out.laser_scan ELSE @,
                         !.sweeps = IF out.swept THEN @ + 1 ELSE @]
   ELSE twin

\* lidar.rs:131-137
lidar_parameter_update_system ==
   /\ host.steps > 0
   /\ "lidar_parameter_update_system" \in pending
   /\ lidar' = ParameterUpdate(lidar, changed)
   /\ changed' = FALSE
   /\ dirty' = (dirty /\ ~ changed)
   /\ twin' = TwinUpdated
   /\ peer' = PeerUpdated
   /\ Ran("lidar_parameter_update_system")
   /\ UNCHANGED << obstacles, lidar_transform, laser_scan, sweep, prev, sweeps,
                   edits, clock, reads >>
   /\ UNCHANGED arm_vars

\* lidar.rs:140-340
lidar_scanning_system ==
   /\ host.steps > 0
   /\ "lidar_scanning_system" \in pending
   /\ \E delta \in host.deltas :
         LET ticked == [lidar EXCEPT !.scan_timer = TimerTick(@, delta)]
             found == obstacle_query
             quiet == Sweep(ticked, lidar_transform, found, << >>)
         IN  /\ clock' = clock + delta
             /\ peer' = PeerScanned(delta)
             /\ IF JustFinished(ticked.scan_timer)
                THEN \E noise \in [NoisyRays(ticked, quiet)
                                     -> NoiseSamples(ticked.noise_stddev)] :
                        LET swept == IF DOMAIN noise = {} THEN quiet
                                     ELSE Sweep(ticked, lidar_transform, found,
                                                noise)
                            msg == LaserScanOf(ticked, swept)
                        IN  /\ lidar' = AdvanceCursor(SweepLidar(ticked, swept))
                            /\ laser_scan' = msg
                            /\ sweep' = [ n |-> sweeps + 1,
                                          inputs |-> SweepInputs(ticked,
                                                                 lidar_transform,
                                                                 found),
                                          dirty |-> dirty,
                                          seen |-> Displacements(
                                             found,
                                             lidar_transform.translation),
                                          scan_results |-> swept.scan_results ]
                            /\ prev' = IF sweeps = 0 THEN NoSweep
                                       ELSE [ n |-> sweep.n,
                                              inputs |-> sweep.inputs,
                                              scan_results |-> sweep.scan_results,
                                              laser_scan |-> laser_scan ]
                            /\ sweeps' = sweeps + 1
                            /\ twin' = TwinScanned(delta, noise)
                            /\ reads' = CursorReads(SweepLidar(ticked, swept),
                                                    TRUE)
                ELSE /\ lidar' = AdvanceCursor(ticked)
                     /\ twin' = TwinScanned(delta, << >>)
                     /\ reads' = CursorReads(ticked, FALSE)
                     /\ UNCHANGED << laser_scan, sweep, prev, sweeps >>
   /\ changed' = TRUE
   /\ Ran("lidar_scanning_system")
   /\ UNCHANGED << obstacles, lidar_transform, edits, dirty >>
   /\ UNCHANGED arm_vars

\* an external mutation `lidar.field = value` between two frames: DerefMut
\* marks the component changed.  A mirrored mutation is made in the second
\* run too.
Edit(field, value, mirrored) ==
   /\ host.steps > 0
   /\ pending = Systems
   /\ lidar' = [lidar EXCEPT ![field] = value]
   /\ changed' = TRUE
   /\ dirty' = TRUE
   /\ edits' = edits + 1
   /\ host' = [host EXCEPT !.steps = @ - 1]
   /\ twin' = IF twin.on /\ mirrored
              THEN [twin EXCEPT !.lidar[field] = value, !.changed = TRUE]
              ELSE twin
   /\ UNCHANGED << pending, obstacles, lidar_transform, laser_scan, sweep, prev,
                   sweeps, frames, clock, reads, peer >>
   /\ UNCHANGED arm_vars

\* lidar.rays_per_scan = n (tests.rs:46)
SetRaysPerScan ==
   \E n \in host.rays \ {lidar.rays_per_scan} :
      Edit("rays_per_scan", n, TRUE)

\* lidar.noise_stddev = s (tests.rs:296)
SetNoiseStddev ==
   \E s \in NoiseChoices \ {lidar.noise_stddev} :
      Edit("noise_stddev", s, TRUE)

\* lidar.scan_rate = r
SetScanRate ==
   \E r \in ScanRateChoices \ {lidar.scan_rate} :
      Edit("scan_rate", r, TRUE)

\* lidar.range_min = m
SetRangeMin ==
   \E m \in RangeMinChoices \ {lidar.range_min} :
      Edit("range_min", m, TRUE)

\* keyboard_controls.rs:98-115: a key press flips a flag of the sensor; the
\* second run gets no key press
toggle_lidar_visualization ==
   \E key \in DOMAIN ToggleKeys :
      Edit(ToggleKeys[key], ~ lidar[ToggleKeys[key]], FALSE)

Next ==
   \/ lidar_parameter_update_system
   \/ lidar_scanning_system
   \/ SetRaysPerScan
   \/ SetNoiseStddev

Spec == Init /\ [][Next]_vars

InitTimer ==
   /\ Spawned(Bench)
   /\ ArmAtRest
   /\ peer = NoPeer
   /\ twin = NoTwin
   /\ host = [deltas |-> TickDeltas, rays |-> {}, steps |-> MaxTicks]

NextTimer ==
   \/ lidar_parameter_update_system
   \/ lidar_scanning_system

\* the default sensor on the bench under a stream of frames, never mutated
\* from outside
TimerSpec == InitTimer /\ [][NextTimer]_vars

NextConfig ==
   \/ lidar_parameter_update_system
   \/ lidar_scanning_system
   \/ SetRaysPerScan
   \/ SetScanRate
   \/ SetRangeMin
   \/ toggle_lidar_visualization

\* reconfiguration of one sensor on the bench, and a second run that differs
\* in the flags only
ConfigSpec == InitConfig /\ [][NextConfig]_vars

\* an external mutation of a field of the second sensor
EditPeer(field, value) ==
   /\ host.steps > 0
   /\ pending = Systems
   /\ peer.on
   /\ peer' = [peer EXCEPT !.lidar[field] = value, !.changed = TRUE]
   /\ host' = [host EXCEPT !.steps = @ - 1]
   /\ UNCHANGED << lidar, changed, pending, obstacles, lidar_transform,
                   laser_scan, sweep, prev, sweeps, frames, edits, clock, dirty,
                   twin, reads >>
   /\ UNCHANGED arm_vars

\* peer.rays_per_scan = n
SetPeerRaysPerScan ==
   \E n \in host.rays \ {peer.lidar.rays_per_scan} :
      EditPeer("rays_per_scan", n)

\* peer.scan_rate = r
SetPeerScanRate ==
   \E r \in ScanRateChoices \ {peer.lidar.scan_rate} :
      EditPeer("scan_rate", r)

\* two sensors in the world of the bench; the second run is the first sensor
\* alone in that world, with the same flags, frames and mutations
InitFleet ==
   /\ Spawned(Bench)
   /\ ArmAtRest
   /\ peer = Peer
   /\ twin = Twin(LidarDefault.visualize, LidarDefault.enable_logging)
   /\ host = [deltas |-> Deltas, rays |-> RaysChoices, steps |-> MaxFleetSteps]

NextFleet ==
   \/ lidar_parameter_update_system
   \/ lidar_scanning_system
   \/ SetRaysPerScan
   \/ SetPeerRaysPerScan
   \/ SetPeerScanRate

FleetSpec == InitFleet /\ [][NextFleet]_vars

(***************************************************************************)
(* The arm: one draggable link, the two systems that write its DragState,  *)
(* run once per frame in either order, and a host that displaces the link  *)
(* between frames a bounded number of times and then leaves it alone.      *)
(***************************************************************************)
\* arm system `sys` has run: the frame ends when both have
ArmRan(sys) ==
   arm_pending' = IF arm_pending \ {sys} = {} THEN ArmSystems
                  ELSE arm_pending \ {sys}

\* robotic_arm.rs:654-677
detect_drag_state ==
   /\ "detect_drag_state" \in arm_pending
   /\ arm' = DetectDragState(arm)
   /\ ArmRan("detect_drag_state")
   /\ UNCHANGED drags
   /\ UNCHANGED lidar_vars

\* robotic_arm.rs:679-720
return_to_original_position ==
   /\ "return_to_original_position" \in arm_pending
   /\ \E delta \in ArmDeltas : arm' = ReturnToOriginal(arm, delta)
   /\ ArmRan("return_to_original_position")
   /\ UNCHANGED drags
   /\ UNCHANGED lidar_vars

\* between two frames the link is moved by a drag (robot_drag.rs:31-60
\* pushes it with an impulse, the physics step writes its Transform)
Drag ==
   /\ drags > 0
   /\ arm_pending = ArmSystems
   /\ \E target \in DragTargets \ {arm.transform} :
         arm' = [arm EXCEPT !.transform = target]
   /\ drags' = drags - 1
   /\ UNCHANGED arm_pending
   /\ UNCHANGED lidar_vars

\* the sensor sits on the bench and gets no frame; the link may be dragged
InitArm ==
   /\ Spawned(Bench)
   /\ twin = NoTwin
   /\ host = [deltas |-> {}, rays |-> {}, steps |-> 0]
   /\ peer = NoPeer
   /\ arm = ArmSpawned
   /\ arm_pending = ArmSystems
   /\ drags = MaxDrags

NextArm ==
   \/ detect_drag_state
   \/ return_to_original_position
   \/ Drag

\* every frame runs both systems: neither is postponed for ever
ArmSpec ==
   /\ InitArm
   /\ [][NextArm]_vars
   /\ WF_vars(detect_drag_state)
   /\ WF_vars(return_to_original_position)

(***************************************************************************)
(* Properties.  `sweep` holds what the last completed sweep read (inputs)  *)
(* and what it wrote (scan_results, laser_scan); the geometry below is     *)
(* stated from the positions, independently of the sweep's own tests.      *)
(***************************************************************************)
\* the rays of the last sweep, as indices into its scan_results
Rays == 1 .. Len(sweep.scan_results)

\* per obstacle of the last sweep: displacement from the sensor and distance
Seen == sweep.seen

\* obstacle o lies within [range_min, range_max] of the sensor
WithinRange(o) ==
   /\ Seen[o].distance_to_obstacle >= sweep.inputs.range_min
   /\ Seen[o].distance_to_obstacle <= sweep.inputs.range_max

\* obstacle o lies inside the tolerance cone of the ray at `angle`
WithinCone(o, angle) ==
   /\ Seen[o].distance_to_obstacle > 0
   /\ Dot(Rotate(sweep.inputs.transform.yaw, angle), Seen[o].to_obstacle)
         \div Seen[o].distance_to_obstacle > min_dot

\* the obstacles that qualify for ray k: in range and inside its cone
Qualifying(k) ==
   {o \in 1 .. Len(Seen) :
      WithinRange(o) /\ WithinCone(o, sweep.scan_results[k].angle)}

\* the least element of a non-empty set of numbers
Least(S) == CHOOSE m \in S : \A x \in S : m <= x

Swept == sweeps > 0

NoiseFree == sweep.inputs.noise_stddev = 0

(* C1: after every completed sweep with rays_per_scan >= 1, scan_results   *)
(* holds exactly rays_per_scan entries, the value of the field at sweep    *)
(* time, whatever sweeps and reconfigurations came before.                 *)
C1_ResultLength ==
   (Swept /\ sweep.inputs.rays_per_scan >= 1)
      => /\ Len(sweep.scan_results) = sweep.inputs.rays_per_scan
         /\ JustFinished(lidar.scan_timer) => lidar.scan_results = sweep.scan_results

\* a second sweep has completed after rays_per_scan was changed to 72
C1_Witness ==
   /\ sweeps >= 2
   /\ edits > 0
   /\ sweep.inputs.rays_per_scan = 72
   /\ prev.inputs.rays_per_scan = 36
   /\ Len(sweep.scan_results) = 72

(* C2: in every completed sweep entry i has angle i * angular_resolution:  *)
(* the angles start at 0, increase strictly by angular_resolution, and     *)
(* every angle lies in [0, 2*pi).                                          *)
C2_Angles ==
   Swept =>
      \A k \in Rays :
         /\ sweep.scan_results[k].angle = (k - 1) * sweep.inputs.angular_resolution
         /\ sweep.scan_results[k].angle >= 0
         /\ sweep.scan_results[k].angle < 2 * PI
         /\ k > 1 => sweep.scan_results[k].angle
                        = sweep.scan_results[k - 1].angle
                             + sweep.inputs.angular_resolution
         /\ k > 1 => sweep.scan_results[k].angle > sweep.scan_results[k - 1].angle

(* C3: an obstacle below range_min or above range_max never causes a hit:  *)
(* every ray reported with hit = true has an obstacle inside               *)
(* [range_min, range_max] within its cone.                                 *)
C3_HitsInRange ==
   Swept => \A k \in Rays : sweep.scan_results[k].hit => Qualifying(k) # {}

\* a sweep saw an obstacle 0.1 m away, below range_min = 0.2 m, straight
\* on the axis of ray 0, and no ray reports a hit
C3_Witness ==
   /\ Swept
   /\ \E o \in 1 .. Len(Seen) :
         /\ Seen[o].distance_to_obstacle = 100
         /\ Seen[o].distance_to_obstacle < sweep.inputs.range_min
         /\ WithinCone(o, sweep.scan_results[1].angle)
   /\ \A k \in Rays : ~ sweep.scan_results[k].hit

(* C4: the range interval is inclusive at both ends: with noise disabled,  *)
(* an obstacle at distance d with range_min <= d <= range_max inside a     *)
(* ray's cone makes that ray report hit = true, at a distance of at most d *)
(* (exactly d when it is the only such obstacle).                          *)
C4_InclusiveRange ==
   (Swept /\ NoiseFree) =>
      \A k \in Rays : \A o \in Qualifying(k) :
         /\ sweep.scan_results[k].hit
         /\ sweep.scan_results[k].distance <= Seen[o].distance_to_obstacle
         /\ Qualifying(k) = {o}
               => sweep.scan_results[k].distance = Seen[o].distance_to_obstacle

\* an obstacle at exactly range_min is in the cone of a ray, which reports it
C4_Witness ==
   /\ Swept
   /\ NoiseFree
   /\ \E k \in Rays : \E o \in Qualifying(k) :
         /\ Seen[o].distance_to_obstacle = sweep.inputs.range_min
         /\ sweep.scan_results[k].hit
         /\ sweep.scan_results[k].distance = sweep.inputs.range_min

(* C5: for every ray of a completed sweep the two encodings agree: a hit   *)
(* has ranges[i] = scan_results[i].distance; a miss has ranges[i] =        *)
(* +infinity and scan_results[i].distance = range_max; ranges[i] is        *)
(* infinite exactly when the ray is a miss.                                *)
C5_EncodingsAgree ==
   Swept =>
      /\ Len(laser_scan.ranges) = Len(sweep.scan_results)
      /\ \A k \in Rays :
            /\ sweep.scan_results[k].hit
                  => laser_scan.ranges[k] = sweep.scan_results[k].distance
            /\ ~ sweep.scan_results[k].hit
                  => /\ laser_scan.ranges[k] = INFINITY
                     /\ sweep.scan_results[k].distance = sweep.inputs.range_max
            /\ laser_scan.ranges[k] = INFINITY <=> ~ sweep.scan_results[k].hit

\* a sweep with noise enabled reports a hit at a perturbed distance, and a miss
C5_Witness ==
   /\ Swept
   /\ sweep.inputs.noise_stddev > 0
   /\ \E k \in Rays :
         /\ sweep.scan_results[k].hit
         /\ sweep.scan_results[k].distance
               # Least({Seen[o].distance_to_obstacle : o \in Qualifying(k)})
         /\ laser_scan.ranges[k] = sweep.scan_results[k].distance
   /\ \E k \in Rays : laser_scan.ranges[k] = INFINITY

(* C6: in every emitted LaserScan message ranges and intensities have the  *)
(* same length, rays_per_scan, and intensities[i] is 1.0 exactly when ray  *)
(* i is a hit and 0.0 exactly when it is a miss, so an infinite range has  *)
(* intensity 0.                                                            *)
C6_Intensities ==
   Swept =>
      /\ Len(laser_scan.ranges) = sweep.inputs.rays_per_scan
      /\ Len(laser_scan.intensities) = sweep.inputs.rays_per_scan
      /\ \A k \in Rays :
            /\ laser_scan.intensities[k] = 1 <=> sweep.scan_results[k].hit
            /\ laser_scan.intensities[k] = 0 <=> ~ sweep.scan_results[k].hit
            /\ laser_scan.ranges[k] = INFINITY => laser_scan.intensities[k] = 0

\* a message with a hit of intensity 1 and a miss of intensity 0
C6_Witness ==
   /\ Swept
   /\ \E k \in Rays : sweep.scan_results[k].hit /\ laser_scan.intensities[k] = 1
   /\ \E k \in Rays : ~ sweep.scan_results[k].hit /\ laser_scan.intensities[k] = 0

(* C7: nearest wins: with noise disabled, every ray with one or more       *)
(* qualifying obstacles reports the minimum of their distances, as a hit   *)
(* when that minimum is below range_max.                                   *)
C7_NearestWins ==
   (Swept /\ NoiseFree) =>
      \A k \in Rays :
         LET qualifying == Qualifying(k)
             nearest == Least({Seen[o].distance_to_obstacle : o \in qualifying})
         IN  qualifying # {} =>
                /\ sweep.scan_results[k].distance = nearest
                /\ nearest < sweep.inputs.range_max => sweep.scan_results[k].hit

\* Scenario D: obstacles at (3,0,0) and (5,0,0), both in the cone of the
\* first ray, which reports a hit at 3.0
C7_Witness ==
   /\ Swept
   /\ NoiseFree
   /\ sweep.inputs.obstacles = << <<5000, 0, 0>>, <<3000, 0, 0>> >>
   /\ sweep.inputs.transform = AtOrigin
   /\ Qualifying(1) = {1, 2}
   /\ sweep.scan_results[1].hit
   /\ sweep.scan_results[1].distance = 3000

\* the sensor fields a sweep reads, as a LidarSensor
SweepConfig ==
   [LidarDefault EXCEPT !.range_min = sweep.inputs.range_min,
                        !.range_max = sweep.inputs.range_max,
                        !.scan_rate = sweep.inputs.scan_rate,
                        !.rays_per_scan = sweep.inputs.rays_per_scan,
                        !.angular_resolution = sweep.inputs.angular_resolution,
                        !.noise_stddev = sweep.inputs.noise_stddev]

\* the obstacle list enumerated in the order p
Permuted(obs, p) == [k \in 1 .. Len(obs) |-> obs[p[k]]]

(* C8: a noise-free sweep is deterministic: two sweeps that read the same  *)
(* pose, the same obstacles and the same sensor fields produce identical   *)
(* scan_results and identical LaserScan ranges and intensities.            *)
C8_Deterministic ==
   (sweeps >= 2 /\ NoiseFree /\ sweep.inputs = prev.inputs)
      => /\ sweep.scan_results = prev.scan_results
         /\ laser_scan.ranges = prev.laser_scan.ranges
         /\ laser_scan.intensities = prev.laser_scan.intensities

\* two noise-free sweeps read the same inputs and both report a hit
C8_Witness ==
   /\ sweeps >= 2
   /\ NoiseFree
   /\ sweep.inputs = prev.inputs
   /\ \E k \in Rays : sweep.scan_results[k].hit /\ prev.scan_results[k].hit

(* C9: the sweep does not depend on the order in which the obstacles are   *)
(* enumerated: for every other order of the obstacle list every ray        *)
(* reports the same hit flag and (noise disabled) the same distance.       *)
C9_OrderIndependent ==
   Swept =>
      \A p \in Permutations(1 .. Len(sweep.inputs.obstacles))
                  \ {[k \in 1 .. Len(sweep.inputs.obstacles) |-> k]} :
         LET again == Sweep(SweepConfig, sweep.inputs.transform,
                            Permuted(sweep.inputs.obstacles, p), << >>)
         IN  /\ Len(again.scan_results) = Len(sweep.scan_results)
             /\ \A k \in Rays :
                   /\ again.scan_results[k].hit = sweep.scan_results[k].hit
                   /\ NoiseFree => again.scan_results[k].distance
                                      = sweep.scan_results[k].distance

\* a sweep saw two equidistant obstacles inside the cone of one ray
C9_Witness ==
   /\ Swept
   /\ NoiseFree
   /\ \E k \in Rays : \E o1, o2 \in Qualifying(k) :
         /\ o1 # o2
         /\ Seen[o1].distance_to_obstacle = Seen[o2].distance_to_obstacle
         /\ sweep.scan_results[k].hit
         /\ sweep.scan_results[k].distance = Seen[o1].distance_to_obstacle

\* Scenario A has been swept: sensor at the origin facing +X, one obstacle at
\* (3,0,0), range_max = 12, 36 rays 10 degrees apart, noise disabled
ScenarioA ==
   /\ Swept
   /\ NoiseFree
   /\ sweep.inputs.obstacles = << <<3000, 0, 0>> >>
   /\ sweep.inputs.transform = AtOrigin
   /\ sweep.inputs.range_max = 12000
   /\ sweep.inputs.rays_per_scan = 36
   /\ sweep.inputs.angular_resolution = 10

(* C10: in Scenario A the ray at angle 0 reports hit = true at distance    *)
(* 3.0 and every other ray (indices 1..35) reports hit = false at          *)
(* distance range_max.                                                     *)
C10_ScenarioA ==
   ScenarioA =>
      /\ Len(sweep.scan_results) = 36
      /\ sweep.scan_results[1] = [angle |-> 0, distance |-> 3000, hit |-> TRUE]
      /\ \A k \in 2 .. 36 :
            /\ ~ sweep.scan_results[k].hit
            /\ sweep.scan_results[k].distance = 12000

\* Scenario A has been swept and its first ray reports the obstacle
C10_Witness == ScenarioA /\ sweep.scan_results[1].hit

\* angular_resolution r is 2*pi / n, for n >= 1 rays
IsResolutionOf(r, n) == n >= 1 /\ IsFinite(r) /\ r * n = 2 * PI

(* C11: on the freshly constructed sensor, and whenever update_parameters  *)
(* has run since the last mutation, angular_resolution is 2*pi /           *)
(* rays_per_scan for the current rays_per_scan (36, 72, 18), and a sweep   *)
(* made in that condition produces exactly rays_per_scan entries.          *)
C11_ResolutionRecomputed ==
   /\ (edits = 0 /\ frames = 0 /\ pending = Systems)
         => IsResolutionOf(lidar.angular_resolution, LIDAR_RAYS_PER_SCAN)
   /\ (~ dirty /\ lidar.rays_per_scan >= 1)
         => IsResolutionOf(lidar.angular_resolution, lidar.rays_per_scan)
   /\ (Swept /\ ~ sweep.dirty /\ sweep.inputs.rays_per_scan >= 1)
         => /\ IsResolutionOf(sweep.inputs.angular_resolution,
                              sweep.inputs.rays_per_scan)
            /\ Len(sweep.scan_results) = sweep.inputs.rays_per_scan

\* Scenario C and tests.rs:291: after a change of rays_per_scan and
\* update_parameters, a sweep was made with 72, or with 18, rays
C11_Witness ==
   /\ Swept
   /\ edits > 0
   /\ ~ sweep.dirty
   /\ sweep.inputs.rays_per_scan \in {18, 72}
   /\ sweep.inputs.angular_resolution = (2 * PI) \div sweep.inputs.rays_per_scan
   /\ Len(sweep.scan_results) = sweep.inputs.rays_per_scan

(* C12: whenever a sweep executes, angular_resolution is 2*pi /           *)
(* rays_per_scan and the period of the scan timer is 1 / scan_rate, for    *)
(* the values the fields have at that moment: update_parameters has run    *)
(* between any mutation of rays_per_scan or scan_rate and the sweep, in    *)
(* every order the Update systems can run in.                              *)
C12_RecomputedBeforeSweep ==
   (Swept /\ sweep.inputs.rays_per_scan >= 1 /\ sweep.inputs.scan_rate > 0)
      => /\ IsResolutionOf(sweep.inputs.angular_resolution,
                           sweep.inputs.rays_per_scan)
         /\ sweep.inputs.period * sweep.inputs.scan_rate = SECOND

(* C13: the LaserScan of a sweep has angle_min = 0, angle_max = 2*pi,      *)
(* time_increment = 0, scan_time = 1 / scan_rate, range_min and range_max  *)
(* of the sensor, and angle_increment equal to the sensor's                *)
(* angular_resolution, which is the spacing of the angles of the rays of   *)
(* that sweep.                                                             *)
C13_LaserScanHeader ==
   (Swept /\ sweep.inputs.rays_per_scan >= 1 /\ sweep.inputs.scan_rate > 0)
      => /\ laser_scan.angle_min = 0
         /\ laser_scan.angle_max = 2 * PI
         /\ laser_scan.time_increment = 0
         /\ laser_scan.scan_time * sweep.inputs.scan_rate = SECOND
         /\ laser_scan.range_min = sweep.inputs.range_min
         /\ laser_scan.range_max = sweep.inputs.range_max
         /\ laser_scan.angle_increment = sweep.inputs.angular_resolution
         /\ \A k \in 1 .. Len(sweep.scan_results) - 1 :
               sweep.scan_results[k + 1].angle - sweep.scan_results[k].angle
                  = laser_scan.angle_increment

\* the period of the default timer, 1 / LIDAR_SCAN_RATE
DefaultPeriod == SECOND \div LIDAR_SCAN_RATE

(* C14: Scenario E: at scan_rate = 10 Hz the sensor under the LidarPlugin  *)
(* systems has made exactly one sweep when 0.1 s of host time has been     *)
(* delivered, whether as one tick of 0.1 s or as ten ticks of 0.01 s.      *)
C14_ScenarioE ==
   (lidar.scan_rate = LIDAR_SCAN_RATE /\ clock = DefaultPeriod) => sweeps = 1

(* C15: the scan timer is a repeating timer: every tick adds dt to the     *)
(* accumulated time, and each time the accumulated time reaches the period *)
(* the timer fires once and keeps the remainder, so after every tick the   *)
(* timer holds the host time modulo the period and the tick has accounted  *)
(* for every period boundary it crossed.                                   *)
C15_RepeatingTimer ==
   [][(clock' # clock /\ lidar.scan_rate = LIDAR_SCAN_RATE)
         => /\ lidar'.scan_timer.elapsed = clock' % DefaultPeriod
            /\ lidar'.scan_timer.times_finished_this_tick
                  = (clock' \div DefaultPeriod) - (clock \div DefaultPeriod)
            /\ sweeps' = sweeps
                  + (IF clock' \div DefaultPeriod > clock \div DefaultPeriod
                     THEN 1 ELSE 0)]_vars

(* C16: reconfiguration is edge-triggered: update_parameters is applied    *)
(* only when a field has been mutated since it last ran (the spawn counts  *)
(* as a mutation), never because of the scanning system's own writes to    *)
(* the timer and the cursor.                                               *)
C16_EdgeTriggered ==
   [][(changed /\ ~ changed') => dirty]_vars

\* this step applies update_parameters: only lidar_parameter_update_system
\* clears the change flag, and it calls update_parameters when the flag is set
Reconfigures == changed /\ ~ changed'

(* C17: when scan_rate has changed and update_parameters is applied, the   *)
(* timer gets the new period and keeps the time it has accumulated toward  *)
(* the next sweep.                                                         *)
C17_AccumulatorCarriesOver ==
   [][(/\ Reconfigures
       /\ lidar.scan_rate > 0
       /\ lidar.scan_timer.duration * lidar.scan_rate # SECOND)
         => /\ lidar'.scan_timer.duration * lidar.scan_rate = SECOND
            /\ lidar'.scan_timer.elapsed = lidar.scan_timer.elapsed]_vars

(* C18: update_parameters on a sensor whose configuration has not changed  *)
(* since it last ran leaves angular_resolution, the timer's accumulated    *)
(* time and period and the contents of scan_results as they were, and so   *)
(* does a second call.                                                     *)
C18_NoEffectWhenUnchanged ==
   [][(Reconfigures /\ ~ dirty)
         => /\ lidar'.angular_resolution = lidar.angular_resolution
            /\ lidar'.scan_timer.elapsed = lidar.scan_timer.elapsed
            /\ lidar'.scan_timer.duration = lidar.scan_timer.duration
            /\ lidar'.scan_results = lidar.scan_results
            /\ update_parameters(lidar') = lidar']_vars

\* the configuration a sweep read is valid
ValidConfig(inputs) ==
   /\ inputs.rays_per_scan >= 1
   /\ inputs.range_min < inputs.range_max
   /\ inputs.scan_rate > 0

(* C19: an invalid configuration (rays_per_scan = 0, range_min >=          *)
(* range_max, scan_rate <= 0) is rejected when it is set: no sweep is ever *)
(* executed while the sensor holds one.                                    *)
C19_InvalidConfigRejected == Swept => ValidConfig(sweep.inputs)

\* the sensor without its flags visualize and enable_logging
Ranging(l) == [l EXCEPT !.visualize = TRUE, !.enable_logging = TRUE]

(* C20: enable_logging and visualize have no effect on ranging: a second   *)
(* run fed the same frames, system order, pose, obstacles and mutations,   *)
(* which differs only in the initial values and the key-press toggles of   *)
(* the two flags, sweeps on the same ticks and has identical scan_results, *)
(* timer, cursor and LaserScan.                                            *)
C20_FlagsDoNotAffectRanging ==
   twin.on => /\ Ranging(twin.lidar) = Ranging(lidar)
              /\ twin.laser_scan = laser_scan
              /\ twin.sweeps = sweeps

\* a sweep that reported a hit ran with logging toggled off by a key press,
\* while the second run has logging on
C20_Witness ==
   /\ twin.on
   /\ Swept
   /\ ~ sweep.inputs.enable_logging
   /\ twin.lidar.enable_logging
   /\ \E k \in Rays : sweep.scan_results[k].hit

\* the vectors the last sweep would have filled with noise_stddev = 0
QuietSweep ==
   Sweep([SweepConfig EXCEPT !.noise_stddev = 0],
         sweep.inputs.transform, sweep.inputs.obstacles, << >>)

(* C21: noise never changes which rays hit: a sweep with noise_stddev > 0  *)
(* has, ray for ray, the hit flag, the INFINITY ranges and the intensities *)
(* of the sweep with noise_stddev = 0 over the same pose and obstacles,    *)
(* and the distance of every miss is the noise-free one: the sample is     *)
(* added to the distance of hit rays only.                                 *)
C21_NoiseKeepsHits ==
   (Swept /\ sweep.inputs.noise_stddev > 0)
      => LET quiet == QuietSweep
         IN  /\ Len(sweep.scan_results) = Len(quiet.scan_results)
             /\ \A k \in Rays :
                   /\ sweep.scan_results[k].hit = quiet.scan_results[k].hit
                   /\ sweep.scan_results[k].angle = quiet.scan_results[k].angle
                   /\ (laser_scan.ranges[k] = INFINITY)
                         = (quiet.ranges[k] = INFINITY)
                   /\ laser_scan.intensities = quiet.intensities
                   /\ ~ sweep.scan_results[k].hit
                         => sweep.scan_results[k].distance
                               = quiet.scan_results[k].distance

\* a noisy sweep moved the distance of a hit ray and left a miss alone
C21_Witness ==
   /\ Swept
   /\ sweep.inputs.noise_stddev > 0
   /\ \E k \in Rays :
         /\ sweep.scan_results[k].hit
         /\ sweep.scan_results[k].distance # QuietSweep.scan_results[k].distance
   /\ \E k \in Rays : ~ sweep.scan_results[k].hit

(* C22: the cursor advances by exactly one ray per host tick, whether or   *)
(* not a sweep ran on it: once scan_results is non-empty, current_ray      *)
(* after a run of lidar_scanning_system is (current_ray before + 1) mod    *)
(* rays_per_scan.                                                          *)
C22_CursorAdvancesByOne ==
   [][(clock' # clock /\ lidar.scan_results # << >>)
         => lidar'.current_ray
               = (lidar.current_ray + 1) % lidar'.rays_per_scan]_vars

(* C23: scan_results is replaced only by a completed sweep: a step that    *)
(* completes no sweep (a tick that does not fire, a parameter update, a    *)
(* flag toggle or another mutation) leaves the stored entries those of the *)
(* last completed sweep, and a step that completes a sweep leaves exactly  *)
(* that sweep's entries.                                                   *)
C23_ReplacedOnlyBySweep ==
   [][IF sweeps' = sweeps
      THEN lidar'.scan_results = lidar.scan_results
      ELSE lidar'.scan_results = sweep'.scan_results]_vars

(* C25: no read scan_results[current_ray] is out of bounds: at both places *)
(* where lidar_scanning_system indexes scan_results (after a sweep and at  *)
(* the advance of the cursor) the vector is non-empty and the index is     *)
(* below its length, whatever ticks, sweeps, changes of rays_per_scan      *)
(* (shrinking and 0 included) and calls of update_parameters came before;  *)
(* and the cursor the run leaves is inside the stored entries.             *)
C25_IndexInBounds ==
   /\ \A k \in DOMAIN reads :
         reads[k].len > 0 /\ reads[k].index < reads[k].len
   /\ lidar.scan_results # << >>
         => lidar.current_ray < Len(lidar.scan_results)

\* both reads happened in a sweep that left fewer entries than the sweep
\* before it
C25_Witness ==
   /\ Len(reads) = 2
   /\ sweeps >= 2
   /\ Len(sweep.scan_results) < Len(prev.scan_results)
   /\ lidar.scan_results = sweep.scan_results

\* a sweep of rays_per_scan = 0 left scan_results empty, and nothing was read
C25_WitnessEmpty ==
   /\ Swept
   /\ sweep.inputs.rays_per_scan = 0
   /\ lidar.scan_results = << >>
   /\ reads = << >>

(* C26: the cursor and its angle stay consistent: after every run of       *)
(* lidar_scanning_system that leaves scan_results non-empty, current_angle *)
(* is the angle of the entry scan_results[current_ray].                    *)
C26_CursorAngleConsistent ==
   (clock > 0 /\ lidar.scan_results # << >>)
      => /\ lidar.current_ray < Len(lidar.scan_results)
         /\ lidar.current_angle
               = lidar.scan_results[lidar.current_ray + 1].angle

\* the cursor was advanced several times since the last sweep and points at
\* an entry with a non-zero angle
C26_Witness ==
   /\ Swept
   /\ lidar.scan_results # << >>
   /\ lidar.current_ray >= 3
   /\ lidar.current_angle = lidar.current_ray * LIDAR_ANGULAR_RESOLUTION
   /\ lidar.current_angle > 0

C28_DrawnIsMeasured ==
   LET drawn == DrawnDirections(lidar)
   IN  \A k \in DOMAIN drawn :
          LET a == lidar.scan_results[k].angle
          IN  /\ drawn[k] = LocalDirection(a)
              /\ a = 0 => drawn[k] = << ONE, 0, 0 >>
              /\ a = 90 => drawn[k] = << 0, 0, ONE >>
              /\ a = 180 => drawn[k] = << 0 - ONE, 0, 0 >>
              /\ a = 270 => drawn[k] = << 0, 0, 0 - ONE >>

\* the fields update_parameters is said to leave alone
ConfiguredFields ==
   { "range_min", "range_max", "scan_rate", "rays_per_scan", "noise_stddev",
     "offset", "visualize", "enable_logging", "current_ray", "current_angle" }

(* C29: update_parameters changes only derived state: a call leaves        *)
(* range_min, range_max, scan_rate, rays_per_scan, noise_stddev, offset,   *)
(* visualize, enable_logging, current_ray and current_angle as they were;  *)
(* it writes angular_resolution and scan_timer, and scan_results only when *)
(* its capacity differs from rays_per_scan.                                *)
C29_OnlyDerivedState ==
   [][Reconfigures
         => /\ \A f \in ConfiguredFields : lidar'[f] = lidar[f]
            /\ lidar.capacity = lidar.rays_per_scan
                  => lidar'.scan_results = lidar.scan_results]_vars

\* update_parameters has just run on a sensor whose rays_per_scan was
\* changed after a sweep: the derived state is rewritten, the results are
\* dropped, and the cursor is where the last run of the scan left it
C29_Witness ==
   /\ ~ changed
   /\ Swept
   /\ lidar.rays_per_scan # LIDAR_RAYS_PER_SCAN
   /\ lidar.angular_resolution = AngularResolution(lidar.rays_per_scan)
   /\ lidar.scan_results = << >>
   /\ lidar.current_ray > 0
   /\ lidar.current_angle > 0

\* the link is back: exactly its original translation and rotation, with
\* was_dragged and return_timer reset
Returned ==
   /\ arm.transform = OriginalTransform
   /\ ~ arm.drag_state.was_dragged
   /\ arm.drag_state.return_timer = 0

(* C30: drag and return: a link displaced from its OriginalTransform, with *)
(* was_dragged set, and then left alone is eventually moved back by        *)
(* detect_drag_state and return_to_original_position to exactly its        *)
(* original translation and rotation, and then was_dragged is false and    *)
(* return_timer is 0.                                                      *)
C30_DragAndReturn ==
   (drags = 0 /\ arm.drag_state.was_dragged /\ IsDisplaced(arm.transform))
      ~> Returned

\* a link that was pulled aside and left alone never moves again: each frame
\* detect_drag_state finds it displaced and marks it as being dragged
Stranded ==
   [][(drags = 0 /\ arm.drag_state.was_dragged
          /\ arm.drag_state.is_being_dragged
          /\ IsDisplaced(arm.transform) /\ ~ FellBelowGround(arm.transform))
         => arm' = arm]_vars

\* a link put back by hand is returned during a frame as long as
\* return_duration
C30_Witness ==
   /\ drags = 0
   /\ Returned
   /\ arm_pending = {"detect_drag_state"}

(* C24: sensors are independent: with a second LidarSensor entity in the   *)
(* world, which has a Collider, lies within range and is reconfigured on   *)
(* its own, the first sensor evolves as it does alone in that world under  *)
(* the same frames and mutations: same fields, timer, cursor, scan_results *)
(* and LaserScan, sweeps on the same ticks; no sensor entity is ever among *)
(* the obstacles a sweep reads.                                            *)
C24_SensorsIndependent ==
   (peer.on /\ twin.on)
      => /\ twin.lidar = lidar
         /\ twin.laser_scan = laser_scan
         /\ twin.sweeps = sweeps
         /\ Swept => sweep.inputs.obstacles = obstacles

\* both sensors have swept, the second one reconfigured to another
\* rays_per_scan, and the ray of the first sensor that points at the second
\* one (90 degrees, 3 m) reports no hit
C24_Witness ==
   /\ peer.on
   /\ twin.on
   /\ Swept
   /\ peer.lidar.scan_results # << >>
   /\ peer.lidar.rays_per_scan # lidar.rays_per_scan
   /\ Len(peer.lidar.scan_results) # Len(lidar.scan_results)
   /\ \E k \in Rays :
         /\ sweep.scan_results[k].angle = 90
         /\ ~ sweep.scan_results[k].hit

=============================================================================
